---- MODULE Spec2Model ----
(***************************************************************************)
(* A model of app.py, the Streamlit trip planner backed by Google Sheets.  *)
(*                                                                         *)
(* The module holds several specifications over one set of variables, one  *)
(* per part of the program:                                                *)
(*   SpecStore   load_data / save_data and the st.cache_data memo          *)
(*   SpecGeo     geocode_address and its memo                              *)
(*   SpecPass    the geocoding loop of tab4 over a table                   *)
(*   SpecFetch   fetch_movie_info over a film page                         *)
(*   SpecRender  one run of the script: the loads and the six tabs         *)
(*   SpecDay     the sums and the per-day grouping of tab4                 *)
(*   SpecAuth    the password gate, check_password, over the sessions      *)
(***************************************************************************)
EXTENDS Integers, Sequences, FiniteSets, TLC

VARIABLES
    sheet,        \* store: handle -> rows of the remote worksheet (text cells)
    loadCache,    \* store: the st.cache_data entry of load_data, or NoEntry
    lastLoad,     \* store: the last load_data call: [h, result], or NoCall
    fresh,        \* store: handle -> a save_data(h, T) completed and h was not loaded since
    lastSave,     \* store: the save_data call that was the previous operation, or NoSave
    geoCache,     \* geocoding: the st.cache_data memo of geocode_address, (address, name) -> result
    geoCall,      \* geocoding: the last geocode_address call, or NoGeoCall
    lifetime,     \* geocoding: per pair called since the last cache clear, what the calls did
    nCalls,       \* geocoding: number of geocode_address calls made so far
    passIn,       \* pass: the table the geocoding loop of tab4 is given
    passOut,      \* pass: what the last run of the loop produced, or NoPass
    pendingFailed,\* pass: rows the last run asked the geocoder about and left unresolved
    fetchCache,   \* fetch: the st.cache_data memo of fetch_movie_info, url -> result
    fetchCall,    \* fetch: the last fetch_movie_info call, or NoFetch
    lastRender,   \* render: what the last run of the script did, or NoRender
    dayIn,        \* day view: the rows of df_2024
    dayOut,       \* day view: the sums and the day groups tab4 computed, or NoDay
    session_state, \* gate: per session, its st.session_state, key -> value
    widget,       \* gate: per session, the password input is on the page
    lastScript,   \* gate: what the last run of the script did, or NoScript
    lastEntry,    \* gate: the last password entered, or NoPassword
    nSessions     \* gate: number of browser sessions opened so far

storeVars == <<sheet, loadCache, lastLoad, fresh, lastSave>>
geoVars == <<geoCache, geoCall, lifetime, nCalls>>
passVars == <<passIn, passOut, pendingFailed>>
fetchVars == <<fetchCache, fetchCall>>
dayVars == <<dayIn, dayOut>>
authVars == <<session_state, widget, lastScript, lastEntry, nSessions>>
vars == <<storeVars, geoVars, passVars, fetchVars, lastRender, dayVars, authVars>>

(***************************************************************************)
(* Bounds                                                                  *)
(***************************************************************************)
MaxRows == 2
MaxCalls == 3
MaxPassRows == 2
MaxBlocks == 2
MaxDayRows == 2
MaxSessions == 3

(***************************************************************************)
(* Values of the parts a specification leaves alone.                       *)
(***************************************************************************)
EmptyMap == [x \in {} |-> 0]
NoneV == <<"None">>            \* None
NoCoord == <<"none", <<>>>>     \* (None, None)

NoGeoCall ==
    [address |-> NoneV, name |-> NoneV, o1 |-> "", o2 |-> "", hit |-> FALSE,
     made |-> FALSE, events |-> <<>>, result |-> NoCoord]

NoPass == [ran |-> FALSE, rows |-> <<>>, called |-> {}, contacted |-> {}, failedBefore |-> {}]

GeoIdle ==
    /\ geoCache = EmptyMap
    /\ geoCall = NoGeoCall
    /\ lifetime = EmptyMap
    /\ nCalls = 0

StoreIdle ==
    /\ sheet = [h \in {} |-> <<>>]
    /\ loadCache = [full |-> FALSE, key |-> <<>>, value |-> <<>>]
    /\ lastLoad = <<>>
    /\ fresh = <<>>
    /\ lastSave = <<>>

PassIdle ==
    /\ passIn = <<>>
    /\ passOut = <<>>
    /\ pendingFailed = {}

FetchIdle ==
    /\ fetchCache = EmptyMap
    /\ fetchCall = <<>>

RenderIdle == lastRender = <<>>

DayIdle ==
    /\ dayIn = <<>>
    /\ dayOut = <<>>

AuthIdle ==
    /\ session_state = <<>>
    /\ widget = <<>>
    /\ lastScript = <<>>
    /\ lastEntry = <<>>
    /\ nSessions = 0

(***************************************************************************)
(* Cells and tables.  A DataFrame cell is text, a number or the null       *)
(* marker (NaN/None); a worksheet cell is text.  A table is the sequence   *)
(* of the cells of one column below its header row.                        *)
(***************************************************************************)
Text(s) == <<"str", s>>
NaN == <<"nan", "">>
Num7 == <<"num", "7">>

FrameCells == {Text("x"), Text("NA"), Text(""), Text("7"), NaN, Num7}

SeqsUpTo(S, n) == UNION {[1..k -> S] : k \in 0..n}

FrameTables == SeqsUpTo(FrameCells, MaxRows)

\* pandas' default NA tokens, as far as the cell alphabet goes: the parser
\* behind get_as_dataframe reads them (and the empty cell) as NaN, dtype=str
\* notwithstanding.
NaTokens == {"", "NA"}

\* set_with_dataframe's cell representation: null -> "", anything else -> its text.
CellRepr(c) == IF c[1] = "nan" THEN "" ELSE c[2]

\* worksheet.clear() followed by set_with_dataframe(worksheet, df, resize=True).
WriteFrame(df) == [i \in 1..Len(df) |-> CellRepr(df[i])]

\* get_as_dataframe(..., dtype=str): one parsed cell.
ParseCell(s) == IF s \in NaTokens THEN NaN ELSE Text(s)

\* DataFrame.fillna("").
FillNa(df) == [i \in 1..Len(df) |-> IF df[i] = NaN THEN Text("") ELSE df[i]]

\* get_as_dataframe(_worksheet, usecols=None, header=0, dtype=str).fillna("")
ReadFrame(rows) == FillNa([i \in 1..Len(rows) |-> ParseCell(rows[i])])

Handles == {"overview", "biff_2024"}
NoEntry == [full |-> FALSE, key |-> <<>>, value |-> <<>>]
NoCall == [h |-> "", result |-> <<>>, afterSave |-> FALSE, roundTrip |-> FALSE, saved |-> <<>>]
NoSave == [valid |-> FALSE, h |-> "", df |-> <<>>]

\* The memo key of load_data: st.cache_data hashes the arguments whose names do
\* not start with an underscore; _worksheet is the only argument.
LoadKey(h) == <<>>

InitStore ==
    /\ DayIdle
    /\ AuthIdle
    /\ GeoIdle
    /\ PassIdle
    /\ FetchIdle
    /\ RenderIdle
    /\ sheet \in [Handles -> {<<>>, <<"x">>}]
    /\ loadCache = NoEntry
    /\ lastLoad = NoCall
    /\ fresh = [h \in Handles |-> FALSE]
    /\ lastSave = NoSave

\* @st.cache_data on load_data: a hit returns the entry, a miss stores and
\* returns what reading the sheet gives.
MemoLoad(cache, h, read) ==
    IF cache.full /\ cache.key = LoadKey(h)
    THEN [cache |-> cache, result |-> cache.value]
    ELSE [cache |-> [full |-> TRUE, key |-> LoadKey(h), value |-> read], result |-> read]

\* load_data(_worksheet)
load_data(h) ==
    LET m == MemoLoad(loadCache, h, ReadFrame(sheet[h]))
        result == m.result
    IN /\ loadCache' = m.cache
       /\ lastLoad' = [h |-> h, result |-> result, afterSave |-> fresh[h],
                        roundTrip |-> lastSave.valid /\ lastSave.h = h,
                        saved |-> IF lastSave.valid /\ lastSave.h = h THEN lastSave.df ELSE <<>>]
       /\ fresh' = [fresh EXCEPT ![h] = FALSE]
       /\ lastSave' = NoSave
       /\ UNCHANGED sheet

\* save_data(worksheet, df): overwrite the sheet, then st.cache_data.clear().
save_data(h, df) ==
    /\ sheet' = [sheet EXCEPT ![h] = WriteFrame(df)]
    /\ loadCache' = NoEntry
    /\ fresh' = [fresh EXCEPT ![h] = TRUE]
    /\ lastLoad' = NoCall
    /\ lastSave' = [valid |-> TRUE, h |-> h, df |-> df]

\* The 600 second ttl of load_data's memo runs out.
TtlExpire ==
    /\ loadCache.full
    /\ loadCache' = NoEntry
    /\ lastSave' = NoSave
    /\ UNCHANGED <<sheet, lastLoad, fresh>>

Load == (\E h \in Handles : load_data(h)) /\ UNCHANGED <<geoVars, passVars, fetchVars, lastRender, dayVars, authVars>>
Save == (\E h \in Handles, df \in FrameTables : save_data(h, df)) /\ UNCHANGED <<geoVars, passVars, fetchVars, lastRender, dayVars, authVars>>
Expire == TtlExpire /\ UNCHANGED <<geoVars, passVars, fetchVars, lastRender, dayVars, authVars>>

NextStore == Load \/ Save \/ Expire

SpecStore == InitStore /\ [][NextStore]_vars

\* The table save_data(h, T) is meant to leave behind: T with every cell as text
\* and the null marker as the empty string.
AsText(df) == [i \in 1..Len(df) |-> IF df[i] = NaN THEN Text("") ELSE Text(df[i][2])]

\* C1: the first load_data of a handle after a save_data of that handle returns
\* the contents that save wrote to the sheet, never a memoized table.
C1_LoadAfterSaveIsCurrent ==
    lastLoad.afterSave => lastLoad.result = ReadFrame(sheet[lastLoad.h])

\* C2: save_data(h, T) directly followed by load_data(h) yields T with every cell
\* as text and no null marker in any cell.
C2_RoundTrip ==
    lastLoad.roundTrip =>
        /\ lastLoad.result = AsText(lastLoad.saved)
        /\ \A i \in 1..Len(lastLoad.result) : lastLoad.result[i][1] = "str"


(***************************************************************************)
(* Geocoding.  Strings are sequences of characters, so that split and      *)
(* strip are computed; None is a value of its own.                         *)
(***************************************************************************)

RECURSIVE LStrip(_)
LStrip(s) == IF s # <<>> /\ Head(s) = " " THEN LStrip(Tail(s)) ELSE s

RECURSIVE RStrip(_)
RStrip(s) == IF s # <<>> /\ s[Len(s)] = " " THEN RStrip(SubSeq(s, 1, Len(s) - 1)) ELSE s

\* str.strip()
Strip(s) == RStrip(LStrip(s))

\* s.split('(')[0]
RECURSIVE BeforeParen(_)
BeforeParen(s) ==
    IF s = <<>> \/ Head(s) = "(" THEN <<>> ELSE <<Head(s)>> \o BeforeParen(Tail(s))

\* The guard of each try: `x and not pd.isna(x) and str(x).strip()`.
Present(s) == s # NoneV /\ s # <<>> /\ Strip(s) # <<>>

\* The query sent to Nominatim: the region prefix, then the cleaned text.
QueryOf(s) == <<"Busan", " ">> \o Strip(BeforeParen(s))

Addresses == {NoneV, <<>>, <<" ">>, <<"a", " ", "(", "b">>}
Names == {<<>>, <<"n", " ">>}
Outcomes == {"match", "none", "throw"}

Loc(q) == <<"loc", q>>          \* (location.latitude, location.longitude) of q's match
NoReturn == <<"fallthrough", <<>>>>

Sleep == [ev |-> "sleep", q |-> <<>>]
QueryEv(s) == [ev |-> "query", q |-> QueryOf(s)]
Skipped == [events |-> <<>>, exc |-> FALSE, ret |-> NoReturn]

\* The statements of one try block: the query, time.sleep(1), the return on a
\* match.  A query that throws leaves the block at once.
TryBlock(s, o) ==
    [events |-> IF o = "throw" THEN <<QueryEv(s)>> ELSE <<QueryEv(s), Sleep>>,
     exc |-> o = "throw",
     ret |-> IF o = "match" THEN Loc(QueryOf(s)) ELSE NoReturn]

\* A variant of GeocodeBody: the address try's handler returns (None, None)
\* instead of falling through to the name.
GeocodeBodyNoFallback(address, name, o1, o2) ==
    LET a == IF Present(address) THEN TryBlock(address, o1) ELSE Skipped
    IN  IF a.ret # NoReturn THEN [events |-> a.events, result |-> a.ret]
        ELSE IF a.exc THEN [events |-> a.events, result |-> NoCoord]
        ELSE LET n == IF Present(name) THEN TryBlock(name, o2) ELSE Skipped
             IN  [events |-> a.events \o n.events,
                  result |-> IF n.exc THEN NoCoord
                             ELSE IF n.ret # NoReturn THEN n.ret ELSE NoCoord]

\* The body of geocode_address; o1 and o2 are what Nominatim does with the
\* address query and with the name query.
GeocodeBody(address, name, o1, o2) ==
    LET a == IF Present(address) THEN TryBlock(address, o1) ELSE Skipped
    IN  IF a.ret # NoReturn
        THEN [events |-> a.events, result |-> a.ret]
        ELSE \* `except Exception: pass`, no match, or no address
             LET n == IF Present(name) THEN TryBlock(name, o2) ELSE Skipped
             IN  [events |-> a.events \o n.events,
                  result |-> IF n.exc THEN NoCoord
                             ELSE IF n.ret # NoReturn THEN n.ret ELSE NoCoord]

Put(f, k, v) == [x \in DOMAIN f \cup {k} |-> IF x = k THEN v ELSE f[x]]

\* The memo key st.cache_data builds from geocode_address's arguments.
GeoKey(address, name) == <<address, name>>

HasQuery(events) == \E i \in 1..Len(events) : events[i].ev = "query"

\* A variant of Memoized: a (None, None) result is not stored.
MemoizedForgetsFailures(cache, key, run) ==
    IF key \in DOMAIN cache
    THEN [hit |-> TRUE, events |-> <<>>, result |-> cache[key], cache |-> cache]
    ELSE [hit |-> FALSE, events |-> run.events, result |-> run.result,
          cache |-> IF run.result = NoCoord THEN cache ELSE Put(cache, key, run.result)]

\* What a memoized call does: a hit returns the stored value without running
\* the body, a miss runs it and stores what it returned.
Memoized(cache, key, run) ==
    IF key \in DOMAIN cache
    THEN [hit |-> TRUE, events |-> <<>>, result |-> cache[key], cache |-> cache]
    ELSE [hit |-> FALSE, events |-> run.events, result |-> run.result,
          cache |-> Put(cache, key, run.result)]

\* @st.cache_data geocode_address(address, name)
geocode_address(address, name, o1, o2) ==
    /\ nCalls < MaxCalls
    /\ LET key == GeoKey(address, name)
           m == Memoized(geoCache, key, GeocodeBody(address, name, o1, o2))
           old == IF key \in DOMAIN lifetime THEN lifetime[key]
                  ELSE [contacts |-> 0, results |-> {}]
       IN  /\ geoCache' = m.cache
           /\ geoCall' = [address |-> address, name |-> name,
                          o1 |-> IF m.hit THEN "" ELSE o1,
                          o2 |-> IF m.hit THEN "" ELSE o2,
                          hit |-> m.hit, made |-> TRUE,
                          events |-> m.events, result |-> m.result]
           /\ lifetime' = Put(lifetime, key,
                  [contacts |-> old.contacts + (IF HasQuery(m.events) THEN 1 ELSE 0),
                   results |-> old.results \cup {m.result}])
           /\ nCalls' = nCalls + 1

\* st.cache_data.clear(), which save_data runs: every memo goes, this one too.
ClearCaches ==
    /\ geoCache # EmptyMap
    /\ geoCache' = EmptyMap
    /\ lifetime' = EmptyMap
    /\ UNCHANGED <<geoCall, nCalls>>

Geocode ==
    /\ \E address \in Addresses, name \in Names, o1 \in Outcomes, o2 \in Outcomes :
          geocode_address(address, name, o1, o2)
    /\ UNCHANGED <<storeVars, passVars, fetchVars, lastRender, dayVars, authVars>>

Clear == ClearCaches /\ UNCHANGED <<storeVars, passVars, fetchVars, lastRender, dayVars, authVars>>

InitGeo == GeoIdle /\ StoreIdle /\ PassIdle /\ FetchIdle /\ RenderIdle /\ DayIdle /\ AuthIdle

NextGeo == Geocode \/ Clear

SpecGeo == InitGeo /\ [][NextGeo]_vars

\* The queries among the events of a call, in order.
RECURSIVE Queries(_)
Queries(events) ==
    IF events = <<>> THEN <<>>
    ELSE (IF Head(events).ev = "query" THEN <<Head(events).q>> ELSE <<>>)
         \o Queries(Tail(events))

\* What the contract of geocode_address asks of a call that runs the body.
Resolve(address, name, o1, o2) ==
    LET askAddress == address # NoneV /\ Strip(address) # <<>>
        askName == (~askAddress \/ o1 # "match") /\ name # NoneV /\ Strip(name) # <<>>
    IN  [queries |-> (IF askAddress THEN <<QueryOf(address)>> ELSE <<>>)
                     \o (IF askName THEN <<QueryOf(name)>> ELSE <<>>),
         result |-> IF askAddress /\ o1 = "match" THEN Loc(QueryOf(address))
                    ELSE IF askName /\ o2 = "match" THEN Loc(QueryOf(name))
                    ELSE NoCoord]

\* C3: geocode_address never raises: it returns the address's match when the
\* address is non-blank and matches; when the address is blank, finds nothing or
\* the query throws, it asks with the name; when that fails too, or the name is
\* blank, it returns (None, None).
C3_FallbackNeverRaises ==
    (geoCall.made /\ ~geoCall.hit) =>
        LET want == Resolve(geoCall.address, geoCall.name, geoCall.o1, geoCall.o2)
        IN  /\ geoCall.result[1] \in {"loc", "none"}
            /\ Queries(geoCall.events) = want.queries
            /\ geoCall.result = want.result

\* C3 witness: the address query threw and the name query's match was returned.
C3_Witness ==
    /\ geoCall.made /\ ~geoCall.hit
    /\ Present(geoCall.address) /\ geoCall.o1 = "throw"
    /\ geoCall.result = Loc(QueryOf(geoCall.name))

\* C4: within one cache lifetime the geocoder is contacted during at most one
\* call per (address, name) pair, and all calls for a pair return one result.
C4_MemoizedPerPair ==
    \A key \in DOMAIN lifetime :
        /\ lifetime[key].contacts <= 1
        /\ Cardinality(lifetime[key].results) = 1

\* C4 witness: a repeated call for a pair whose first call reached the geocoder
\* and failed is answered from the memo.
C4_Witness ==
    /\ geoCall.made /\ geoCall.hit
    /\ geoCall.result = NoCoord
    /\ GeoKey(geoCall.address, geoCall.name) \in DOMAIN lifetime
    /\ lifetime[GeoKey(geoCall.address, geoCall.name)].contacts = 1

\* C6: every query geocode_address sends is followed by the 1 second sleep
\* before the next query or the return, on every path.
C6_EveryQueryThrottled ==
    \A i \in 1..Len(geoCall.events) :
        geoCall.events[i].ev = "query" =>
            i < Len(geoCall.events) /\ geoCall.events[i + 1].ev = "sleep"

(***************************************************************************)
(* The geocoding loop of tab4 (the overall map, and again the map of the   *)
(* selected day): the same statements over map_data and over day_df.       *)
(***************************************************************************)
\* A cell of the working frame: text from the sheet, None, a parsed number, NaN,
\* or a coordinate the geocoder returned for a query.
TextCell(s) == [k |-> "text", n |-> 0, q |-> s]
NoneCell == [k |-> "None", n |-> 0, q |-> <<>>]
NumCell(n) == [k |-> "num", n |-> n, q |-> <<>>]
NaNCell == [k |-> "nan", n |-> 0, q |-> <<>>]
LatOf(q) == [k |-> "lat", n |-> 0, q |-> q]
LonOf(q) == [k |-> "lon", n |-> 0, q |-> q]

DigitValue(c) ==
    CASE c = "0" -> 0 [] c = "1" -> 1 [] c = "2" -> 2 [] c = "3" -> 3 [] c = "4" -> 4
      [] c = "5" -> 5 [] c = "6" -> 6 [] c = "7" -> 7 [] c = "8" -> 8 [] c = "9" -> 9
      [] OTHER -> -1

RECURSIVE DigitsValue(_, _)
DigitsValue(s, acc) ==
    IF s = <<>> THEN acc
    ELSE IF DigitValue(Head(s)) < 0 \/ acc < 0 THEN -1
    ELSE DigitsValue(Tail(s), 10 * acc + DigitValue(Head(s)))

\* pd.to_numeric(x, errors='coerce') of one cell.
ToNumeric(c) ==
    IF c.k = "text"
    THEN (IF c.q # <<>> /\ DigitsValue(c.q, 0) >= 0 THEN NumCell(DigitsValue(c.q, 0)) ELSE NaNCell)
    ELSE IF c.k = "None" THEN NaNCell
    ELSE c

\* Lines 314-315: a frame without a lat or without a lon column gets both, all None.
WithCoordColumns(tbl) ==
    IF tbl.hasLat /\ tbl.hasLon THEN tbl.rows
    ELSE [i \in 1..Len(tbl.rows) |-> [tbl.rows[i] EXCEPT !.lat = NoneCell, !.lon = NoneCell]]

\* A variant of RowsToGeocode: every row is geocoded again.
RowsToGeocodeAll(rows) == 1..Len(rows)

\* rows_to_geocode: the rows whose lat does not parse as a number.
RowsToGeocode(rows) == {i \in 1..Len(rows) : ToNumeric(rows[i].lat) = NaNCell}

\* What Nominatim does with the query for s while one run of the loop lasts.
OutcomeOf(world, s) == IF Present(s) THEN world[QueryOf(s)] ELSE "none"

\* The for loop over rows_to_geocode, from row i on.
RECURSIVE GeocodeLoop(_, _, _, _, _)
GeocodeLoop(i, todo, world, cache, acc) ==
    IF i > Len(acc.rows) THEN [rows |-> acc.rows, called |-> acc.called,
                               contacted |-> acc.contacted, cache |-> cache]
    ELSE IF i \notin todo THEN GeocodeLoop(i + 1, todo, world, cache, acc)
    ELSE LET row == acc.rows[i]
             m == Memoized(cache, GeoKey(row.addr, row.name),
                           GeocodeBody(row.addr, row.name, OutcomeOf(world, row.addr),
                                       OutcomeOf(world, row.name)))
             lat == IF m.result = NoCoord THEN NoneCell ELSE LatOf(m.result[2])
             lon == IF m.result = NoCoord THEN NoneCell ELSE LonOf(m.result[2])
         IN  GeocodeLoop(i + 1, todo, world, m.cache,
                 [rows |-> [acc.rows EXCEPT ![i] = [row EXCEPT !.lat = lat, !.lon = lon]],
                  called |-> acc.called \cup {i},
                  contacted |-> acc.contacted \cup (IF HasQuery(m.events) THEN {i} ELSE {})])

\* Lines 313-326 (and 361-375): default the columns, geocode the rows without a
\* numeric lat, then coerce both columns to numbers.
GeocodePass(tbl, cache, world) ==
    LET rows == WithCoordColumns(tbl)
        done == GeocodeLoop(1, RowsToGeocode(rows), world, cache,
                            [rows |-> rows, called |-> {}, contacted |-> {}])
    IN  [rows |-> [i \in 1..Len(rows) |->
                     [done.rows[i] EXCEPT !.lat = ToNumeric(done.rows[i].lat),
                                          !.lon = ToNumeric(done.rows[i].lon)]],
         called |-> done.called, contacted |-> done.contacted, cache |-> done.cache]

PassAddresses == {NoneV, <<"a">>}
PassNames == {<<"n">>}
LatTexts == {<<>>, <<"3", "5">>, <<"x">>}
LonTexts == {<<>>, <<"1", "2", "9">>}
PassQueries == {QueryOf(t) : t \in {u \in PassAddresses \cup PassNames : Present(u)}}

PassRows(hasLat, hasLon) ==
    [addr : PassAddresses, name : PassNames,
     lat : IF hasLat THEN {TextCell(t) : t \in LatTexts} ELSE {NoneCell},
     lon : IF hasLon THEN {TextCell(t) : t \in LonTexts} ELSE {NoneCell}]

PassTables ==
    UNION {[hasLat : {hasLat}, hasLon : {hasLon},
            rows : SeqsUpTo(PassRows(hasLat, hasLon), MaxPassRows)] :
           hasLat \in BOOLEAN, hasLon \in BOOLEAN}


InitPass ==
    /\ DayIdle
    /\ AuthIdle
    /\ StoreIdle
    /\ GeoIdle
    /\ FetchIdle
    /\ RenderIdle
    /\ passIn \in PassTables
    /\ passOut = NoPass
    /\ pendingFailed = {}

\* One render of tab4 runs the loop over the frame.
RunPass ==
    /\ \E world \in [PassQueries -> Outcomes] :
          LET p == GeocodePass(passIn, geoCache, world)
          IN  /\ geoCache' = p.cache
              /\ passOut' = [ran |-> TRUE, rows |-> p.rows, called |-> p.called,
                             contacted |-> p.contacted, failedBefore |-> pendingFailed]
              /\ pendingFailed' = {i \in p.contacted : p.rows[i].lat = NaNCell}
    /\ UNCHANGED <<passIn, geoCall, lifetime, nCalls, storeVars, fetchVars, lastRender, dayVars, authVars>>

\* A save_data elsewhere in the app runs st.cache_data.clear().
PassClear ==
    /\ geoCache # EmptyMap
    /\ geoCache' = EmptyMap
    /\ pendingFailed' = {}
    /\ UNCHANGED <<passIn, passOut, geoCall, lifetime, nCalls, storeVars, fetchVars, lastRender, dayVars, authVars>>

NextPass == RunPass \/ PassClear

SpecPass == InitPass /\ [][NextPass]_vars

\* C5: a row left unresolved by one run of the pass, after the geocoder was
\* asked about it, has the geocoder asked again in the next run of the pass.
C5_FailedRowRetried ==
    passOut.ran => \A i \in passOut.failedBefore : i \in passOut.contacted

\* C9 as stated: geocode_address is called only for rows whose lat is absent or
\* non-numeric; a row with a numeric coordinate keeps it and causes no call.
C9_OnlyRowsWithoutLat ==
    passOut.ran =>
        \A i \in 1..Len(passIn.rows) :
            LET r == passIn.rows[i]
            IN  /\ i \in passOut.called => ToNumeric(r.lat) = NaNCell
                /\ (ToNumeric(r.lat) # NaNCell /\ ToNumeric(r.lon) # NaNCell) =>
                       /\ i \notin passOut.called
                       /\ passOut.rows[i].lat = ToNumeric(r.lat)
                       /\ passOut.rows[i].lon = ToNumeric(r.lon)

\* C9 amended: in a frame that has both a lat and a lon column, geocode_address
\* is called exactly for the rows whose lat is not numeric, and a row with a
\* numeric lat keeps its lat, and its lon when that is numeric, and causes no
\* call; in a frame that lacks either column every row is geocoded.
C9_OnlyRowsWithoutLatAmended ==
    passOut.ran =>
        \A i \in 1..Len(passIn.rows) :
            LET r == passIn.rows[i]
            IN  IF passIn.hasLat /\ passIn.hasLon
                THEN /\ i \in passOut.called <=> ToNumeric(r.lat) = NaNCell
                     /\ ToNumeric(r.lat) # NaNCell =>
                            /\ passOut.rows[i].lat = ToNumeric(r.lat)
                            /\ ToNumeric(r.lon) # NaNCell =>
                                   passOut.rows[i].lon = ToNumeric(r.lon)
                ELSE i \in passOut.called

\* C9 witness: a run over a frame with both columns that geocoded one row and
\* left a row with a numeric coordinate alone.
C9_Witness ==
    /\ passOut.ran /\ passIn.hasLat /\ passIn.hasLon
    /\ \E i, j \in 1..Len(passIn.rows) :
          /\ i \in passOut.called
          /\ j \notin passOut.called
          /\ passOut.rows[j].lat = NumCell(35)
          /\ passOut.rows[j].lon = NumCell(129)

(***************************************************************************)
(* fetch_movie_info.  A page is what requests.get finds at the url: a      *)
(* transport or HTTP failure, or a document with its film-level tags and   *)
(* its .pgv_sch_list blocks.  Missing stands for a tag select_one does not *)
(* find.  A text is a sequence of characters; a label is one character.    *)
(***************************************************************************)
Missing == <<"Missing">>

\* str.replace(label, "")
RemoveLabel(s, label) == SelectSeq(s, LAMBDA c : c # label)

\* re.sub(r'\D', '', s)
OnlyDigits(s) == SelectSeq(s, LAMBDA c : DigitValue(c) >= 0)

\* `tag.text.strip() if tag else ""`
TextOrEmpty(tag) == IF tag = Missing THEN <<>> ELSE Strip(tag)

\* `spec_list[i].text.replace(label, "").strip() if len(spec_list) > i else ""`
SpecField(spec_list, i, label) ==
    IF Len(spec_list) > i THEN Strip(RemoveLabel(spec_list[i + 1], label)) ELSE <<>>

\* `hashtags[i] if i < len(hashtags) else ""`
HashTag(hashtags, i) == IF i < Len(hashtags) THEN Strip(hashtags[i + 1]) ELSE <<>>

\* The base_info dict, lines 116-137.
BaseInfo(doc) ==
    [title_kor |-> TextOrEmpty(doc.title),
     title_en |-> TextOrEmpty(doc.title_en),
     director |-> TextOrEmpty(doc.director),
     note |-> TextOrEmpty(doc.note),
     country |-> SpecField(doc.spec_list, 0, "CountryLabel"),
     year |-> SpecField(doc.spec_list, 1, "YearLabel"),
     runtime |-> SpecField(doc.spec_list, 2, "RuntimeLabel"),
     format |-> SpecField(doc.spec_list, 3, "FormatLabel"),
     color |-> SpecField(doc.spec_list, 4, "ColorLabel"),
     hashtag1 |-> HashTag(doc.hashtags, 0),
     hashtag2 |-> HashTag(doc.hashtags, 1),
     hashtag3 |-> HashTag(doc.hashtags, 2)]

\* `.text` of a tag select_one did not find raises AttributeError.
BlockRaises(b) ==
    b.code = Missing \/ b.date = Missing \/ b.time = Missing \/ b.theater = Missing

RECURSIVE JoinSpans(_)
JoinSpans(spans) ==
    IF spans = <<>> THEN <<>>
    ELSE IF Len(spans) = 1 THEN Head(spans)
    ELSE Head(spans) \o <<" ">> \o JoinSpans(Tail(spans))

\* The showing-level keys schedule_info.update adds, lines 143-150.
ShowingInfo(b, url) ==
    [code |-> OnlyDigits(b.code),
     date |-> Strip(RemoveLabel(b.date, "DateLabel")),
     time |-> Strip(RemoveLabel(b.time, "TimeLabel")),
     theater |-> Strip(RemoveLabel(b.theater, "TheaterLabel")),
     etc |-> JoinSpans(SelectSeq([i \in 1..Len(b.grade) |-> Strip(b.grade[i])],
                                 LAMBDA t : t # <<>>)),
     page |-> url]

\* A row of the result: base_info alone has no showing-level keys.
NoShowing == [code |-> Missing, date |-> Missing, time |-> Missing,
              theater |-> Missing, etc |-> Missing, page |-> ""]
Row(base, showing) == [film |-> base, showing |-> showing]

\* A variant of ResultRows: no row for a film without showings.
ResultRowsNoFallback(final_data_list, base_info) == final_data_list

\* `return final_data_list if final_data_list else [base_info]`
ResultRows(final_data_list, base_info) ==
    IF final_data_list # <<>> THEN final_data_list ELSE <<Row(base_info, NoShowing)>>

NoneResult == [none |-> TRUE, rows |-> <<>>]
Rows(rows) == [none |-> FALSE, rows |-> rows]

\* The body of fetch_movie_info: everything is inside one try whose handler
\* returns None.
FetchBody(url, page) ==
    IF page.status # "ok" THEN [raised |-> TRUE, result |-> NoneResult]
    ELSE IF \E i \in 1..Len(page.doc.blocks) : BlockRaises(page.doc.blocks[i])
    THEN [raised |-> TRUE, result |-> NoneResult]
    ELSE LET base_info == BaseInfo(page.doc)
             final_data_list == [i \in 1..Len(page.doc.blocks) |->
                                   Row(base_info, ShowingInfo(page.doc.blocks[i], url))]
         IN  [raised |-> FALSE, result |-> Rows(ResultRows(final_data_list, base_info))]

Urls == {"u1", "u2"}

FullBlock(d) ==
    [code |-> <<"#", "4", d>>, date |-> <<"DateLabel", " ", "9", d>>,
     time |-> <<"TimeLabel", "1", d, " ">>, theater |-> <<"TheaterLabel", "h", d>>,
     grade |-> << <<"G">>, <<" ">>, <<"K", d>> >>]

Blocks ==
    {FullBlock("1"), FullBlock("2"),
     [FullBlock("3") EXCEPT !.code = Missing],
     [FullBlock("4") EXCEPT !.theater = Missing, !.grade = <<>>]}

Films ==
    {[title |-> Missing, title_en |-> Missing, director |-> Missing, note |-> Missing,
      spec_list |-> <<>>, hashtags |-> <<>>],
     [title |-> <<" ", "T">>, title_en |-> <<"E">>, director |-> <<"D", " ">>, note |-> <<"N">>,
      spec_list |-> << <<"CountryLabel", " ", "K">>, <<"YearLabel", "2", "5">> >>,
      hashtags |-> << <<"h">> >>]}

NoDoc == [blocks |-> <<>>]

Pages ==
    {[status |-> st, doc |-> NoDoc] : st \in {"unreachable", "http_error"}}
    \cup {[status |-> "ok", doc |-> f @@ [blocks |-> bs]] :
            f \in Films, bs \in SeqsUpTo(Blocks, MaxBlocks)}

NoFetch == [made |-> FALSE, url |-> "", page |-> [status |-> "", doc |-> NoDoc],
            hit |-> FALSE, raised |-> FALSE, result |-> NoneResult]

InitFetch ==
    /\ DayIdle
    /\ AuthIdle
    /\ StoreIdle
    /\ GeoIdle
    /\ PassIdle
    /\ RenderIdle
    /\ fetchCache = EmptyMap
    /\ fetchCall = NoFetch

\* @st.cache_data fetch_movie_info(url); page is what the url serves now.
fetch_movie_info(url, page) ==
    LET run == FetchBody(url, page)
        hit == url \in DOMAIN fetchCache
    IN  /\ fetchCache' = IF hit THEN fetchCache ELSE Put(fetchCache, url, run.result)
        /\ fetchCall' = [made |-> TRUE, url |-> url,
                         page |-> IF hit THEN NoFetch.page ELSE page,
                         hit |-> hit, raised |-> ~hit /\ run.raised,
                         result |-> IF hit THEN fetchCache[url] ELSE run.result]

Fetch ==
    /\ \E url \in Urls, page \in Pages : fetch_movie_info(url, page)
    /\ UNCHANGED <<storeVars, geoVars, passVars, lastRender, dayVars, authVars>>

\* st.cache_data.clear() in save_data drops this memo as well.
FetchClear ==
    /\ fetchCache # EmptyMap
    /\ fetchCache' = EmptyMap
    /\ UNCHANGED <<fetchCall, storeVars, geoVars, passVars, lastRender, dayVars, authVars>>

NextFetch == Fetch \/ FetchClear

SpecFetch == InitFetch /\ [][NextFetch]_vars

\* C7: a fetch of a page with K >= 1 showing blocks returns K rows, each with
\* the same film-level fields and its own block's showing-level fields; of a
\* page with no showing block, one row with the film-level fields and no showing
\* fields; of an unreachable url, or when fetching or parsing raises, None.
C7_RowsPerShowing ==
    (fetchCall.made /\ ~fetchCall.hit) =>
        LET page == fetchCall.page
            K == Len(page.doc.blocks)
            rows == fetchCall.result.rows
        IN  /\ page.status # "ok" => fetchCall.result.none
            /\ fetchCall.raised => fetchCall.result.none
            /\ (~fetchCall.raised /\ K >= 1) =>
                   /\ ~fetchCall.result.none
                   /\ Len(rows) = K
                   /\ \A i \in 1..K :
                         /\ rows[i].film = rows[1].film
                         /\ rows[i].showing.code = OnlyDigits(page.doc.blocks[i].code)
                         /\ rows[i].showing.page = fetchCall.url
                         /\ rows[i].showing.date = <<"9", page.doc.blocks[i].code[3]>>
                         /\ rows[i].showing.theater = <<"h", page.doc.blocks[i].code[3]>>
            /\ (~fetchCall.raised /\ K = 0) =>
                   /\ ~fetchCall.result.none
                   /\ Len(rows) = 1
                   /\ rows[1].showing = NoShowing
                   /\ rows[1].film.title_kor \in {<<>>, <<"T">>}
                   /\ rows[1].film.country \in {<<>>, <<"K">>}

\* C7 witness: a page with two different showing blocks gave two rows.
C7_Witness ==
    /\ fetchCall.made /\ ~fetchCall.hit /\ ~fetchCall.result.none
    /\ Len(fetchCall.result.rows) = 2
    /\ fetchCall.result.rows[1].showing # fetchCall.result.rows[2].showing
    /\ fetchCall.result.rows[1].film.title_kor = <<"T">>

(***************************************************************************)
(* One run of the script below the password gate, lines 165-475.  A frame  *)
(* is kept as what the tabs ask of it: whether it has the key and value    *)
(* columns, whether it has the 상호 column (and with it the other columns   *)
(* of last year's sheet that tab4 keys into), whether it has no rows, and  *)
(* whether a row that passes tab4's filter has a visit date that parses.   *)
(***************************************************************************)
Frames ==
    {f \in [key : BOOLEAN, name : BOOLEAN, empty : BOOLEAN, dated : BOOLEAN] :
        f.dated => (f.name /\ ~f.empty)}

\* A sheet create_sheet_if_not_exists made from these headers: a header row only.
HeaderOnly(key, name) ==
    [key |-> key, name |-> name, empty |-> TRUE, dated |-> FALSE]

\* The frame tab1 saves: the four overview items under key and value.
OverviewFrame == [key |-> TRUE, name |-> FALSE, empty |-> FALSE, dated |-> FALSE]

\* The order of the load_data calls, lines 188-193.
LoadOrder ==
    <<"overview", "accommodation_candidates", "activity_candidates", "movies",
      "events", "biff_2024">>

RECURSIVE LoadAll(_, _, _, _)
LoadAll(i, sheets, cache, dfs) ==
    IF i > Len(LoadOrder) THEN [cache |-> cache, dfs |-> dfs]
    ELSE LET m == MemoLoad(cache, LoadOrder[i], sheets[LoadOrder[i]])
         IN  LoadAll(i + 1, sheets, m.cache, dfs @@ (LoadOrder[i] :> m.result))

\* tab4 from line 292 on: df_2024['상호'] is keyed without a check (KeyError),
\* and with no date to select, selected_date has no .date() (line 356).
Tab4Raises(df) == ~df.name \/ ~df.dated

\* What st.data_editor hands back: the frame, or the frame with its rows deleted.
Edited(df, cleared) == IF cleared THEN [df EXCEPT !.empty = TRUE, !.dated = FALSE] ELSE df

Buttons == {"none", "save_overview", "save_acc", "save_act", "save_movies", "save_events"}

\* The tabs in order, up to the first save (which ends the run with st.rerun())
\* or the first exception (which the handler at line 474 reports).
Tabs(dfs, button, cleared) ==
    LET done(tabs, raised, h, df) ==
            [tabs |-> tabs, raised |-> raised, write |-> [h |-> h, df |-> df]]
    IN  IF button = "save_overview" THEN done({1}, FALSE, "overview", OverviewFrame)
        ELSE IF button = "save_acc"
        THEN done({1, 2}, FALSE, "accommodation_candidates",
                  Edited(dfs["accommodation_candidates"], cleared))
        ELSE IF button = "save_act"
        THEN done({1, 2}, FALSE, "activity_candidates",
                  Edited(dfs["activity_candidates"], cleared))
        ELSE IF button = "save_movies"
        THEN done({1, 2, 3}, FALSE, "movies", Edited(dfs["movies"], cleared))
        ELSE IF Tab4Raises(dfs["biff_2024"]) THEN done({1, 2, 3, 4}, TRUE, "", OverviewFrame)
        ELSE IF button = "save_events"
        THEN done({1, 2, 3, 4, 5, 6}, FALSE, "events", Edited(dfs["events"], cleared))
        ELSE done({1, 2, 3, 4, 5, 6}, FALSE, "", OverviewFrame)

NoRender ==
    [made |-> FALSE, button |-> "", overview |-> OverviewFrame, biff |-> OverviewFrame,
     overviewDefault |-> FALSE, warned |-> FALSE, tabs |-> {}, raised |-> FALSE]

InitRender ==
    /\ DayIdle
    /\ AuthIdle
    /\ GeoIdle
    /\ PassIdle
    /\ FetchIdle
    /\ \E o \in Frames, b \in {f \in Frames : ~f.key} :
          sheet = [h \in {LoadOrder[i] : i \in 1..Len(LoadOrder)} |->
                     IF h = "overview" THEN o
                     ELSE IF h = "biff_2024" THEN b
                     ELSE IF h = "events" THEN HeaderOnly(FALSE, TRUE)
                     ELSE HeaderOnly(FALSE, FALSE)]
    /\ loadCache = NoEntry
    /\ lastLoad = NoCall
    /\ fresh = <<>>
    /\ lastSave = NoSave
    /\ lastRender = NoRender

\* One run of the script with the password accepted.
RenderCycle ==
    /\ \E button \in Buttons, cleared \in BOOLEAN :
          LET l == LoadAll(1, sheet, loadCache, <<>>)
              t == Tabs(l.dfs, button, cleared)
          IN  /\ sheet' = IF t.write.h = "" THEN sheet
                          ELSE [sheet EXCEPT ![t.write.h] = t.write.df]
              /\ loadCache' = IF t.write.h = "" THEN l.cache ELSE NoEntry
              /\ lastRender' =
                    [made |-> TRUE, button |-> button,
                     overview |-> l.dfs["overview"], biff |-> l.dfs["biff_2024"],
                     overviewDefault |-> ~l.dfs["overview"].key,
                     warned |-> 4 \in t.tabs /\ (l.dfs["biff_2024"].empty \/ ~l.dfs["biff_2024"].name),
                     tabs |-> t.tabs, raised |-> t.raised]
    /\ UNCHANGED <<lastLoad, fresh, lastSave, geoVars, passVars, fetchVars, dayVars, authVars>>

RenderExpire ==
    /\ TtlExpire
    /\ UNCHANGED <<geoVars, passVars, fetchVars, lastRender, dayVars, authVars>>

NextRender == RenderCycle \/ RenderExpire

SpecRender == InitRender /\ [][NextRender]_vars

\* C8: a run whose overview frame lacks key/value, or whose biff_2024 frame
\* lacks 상호 or is empty, does not raise: the default is used and the later
\* tabs, the events editor among them, are rendered in that run.
C8_MissingColumnTolerated ==
    (/\ lastRender.made
     /\ lastRender.button = "none"
     /\ \/ ~lastRender.overview.key
        \/ ~lastRender.biff.name
        \/ lastRender.biff.empty) =>
        /\ ~lastRender.raised
        /\ 6 \in lastRender.tabs
        /\ ~lastRender.overview.key => lastRender.overviewDefault

\* C11: in a run of the script the loads return each its own sheet: with no
\* save in the run, the overview frame and the biff_2024 frame are the contents
\* of the sheets of those names, so they differ when the two sheets differ.
C11_EachLoadOwnSheet ==
    (lastRender.made /\ lastRender.button = "none") =>
        /\ lastRender.overview = sheet["overview"]
        /\ lastRender.biff = sheet["biff_2024"]
        /\ sheet["overview"] # sheet["biff_2024"] => lastRender.overview # lastRender.biff

(***************************************************************************)
(* The sums and the per-day grouping of tab4, lines 292-302 and 343-359.   *)
(* A visit date cell is the digits of the day of the month, and may carry  *)
(* a time of day (a blank, then the digits of the hour); a visit time cell *)
(* is the digits of the hour.  NaT is -1.                                  *)
(***************************************************************************)
NaT == -1

RECURSIVE Contains(_, _)
\* str.contains(sub)
Contains(s, sub) ==
    IF Len(s) < Len(sub) THEN FALSE
    ELSE IF SubSeq(s, 1, Len(sub)) = sub THEN TRUE
    ELSE Contains(Tail(s), sub)

DayMarker == <<"D", "a", "y">>

\* The row filter of lines 292 and 344: 상호 not empty and without "Day".
Kept(r) == r.name # <<>> /\ ~Contains(r.name, DayMarker)

\* pd.to_numeric(x, errors='coerce').fillna(0) of a cost cell.
Cost(t) == IF t # <<>> /\ DigitsValue(t, 0) >= 0 THEN DigitsValue(t, 0) ELSE 0

\* pd.to_datetime(x, format='%H:%M', errors='coerce'): the hour, or NaT.
ParseTime(t) ==
    IF Len(t) = 2 /\ DigitsValue(t, 0) >= 0 /\ DigitsValue(t, 0) < 24
    THEN DigitsValue(t, 0) ELSE NaT

\* pd.to_datetime(x, errors='coerce'): the timestamp in hours, or NaT.
ParseDateTime(t) ==
    LET day == IF Len(t) >= 2 THEN DigitsValue(SubSeq(t, 1, 2), 0) ELSE -1
        hour == IF Len(t) = 2 THEN 0
                ELSE IF Len(t) = 5 /\ t[3] = " " THEN ParseTime(SubSeq(t, 4, 5))
                ELSE -1
    IN  IF day >= 1 /\ day <= 30 /\ hour >= 0 THEN 24 * day + hour ELSE NaT

\* Timestamp.date()
DateOf(ts) == ts \div 24

\* The order of sort_values(by=['방문일자', '방문시간_dt']): NaT last in each key.
KeyBefore(a, b) == a # NaT /\ (b = NaT \/ a < b)
RowBefore(x, y) ==
    \/ KeyBefore(x.ts, y.ts)
    \/ x.ts = y.ts /\ KeyBefore(x.time, y.time)

RECURSIVE Insert(_, _)
Insert(sorted, x) ==
    IF sorted = <<>> THEN <<x>>
    ELSE IF RowBefore(x, Head(sorted)) THEN <<x>> \o sorted
    ELSE <<Head(sorted)>> \o Insert(Tail(sorted), x)

RECURSIVE SortValues(_)
\* A stable sort: a row goes after the rows already placed that it is not before.
SortValues(rows) ==
    IF rows = <<>> THEN <<>>
    ELSE Insert(SortValues(SubSeq(rows, 1, Len(rows) - 1)), rows[Len(rows)])

RECURSIVE SumOf(_, _)
SumOf(rows, field) ==
    IF rows = <<>> THEN 0 ELSE Head(rows)[field] + SumOf(Tail(rows), field)

\* data24 of line 344-349: the kept rows with their parsed columns; i is the
\* row's place in df_2024.
Data24(df) ==
    LET all == [i \in 1..Len(df) |->
                  [i |-> i, keep |-> Kept(df[i]),
                   supported |-> Cost(df[i].supported), extra |-> Cost(df[i].extra),
                   total |-> Cost(df[i].supported) + Cost(df[i].extra),
                   ts |-> ParseDateTime(df[i].date), time |-> ParseTime(df[i].time)]]
    IN  SelectSeq(all, LAMBDA r : r.keep)

\* Lines 350-359: sort, drop the rows without a date, list the dates, and for
\* each date the rows of that date in the sorted order.
DayView(df) ==
    LET data24 == Data24(df)
        dated == SelectSeq(SortValues(data24), LAMBDA r : r.ts # NaT)
        unique_dates == {DateOf(dated[k].ts) : k \in 1..Len(dated)}
    IN  [ran |-> TRUE,
         total |-> SumOf(data24, "total"),
         extra |-> SumOf(data24, "extra"),
         supported |-> SumOf(data24, "supported"),
         dates |-> unique_dates,
         day_df |-> [d \in unique_dates |-> SelectSeq(dated, LAMBDA r : DateOf(r.ts) = d)]]

DayNames == {<<>>, <<"D", "a", "y", "1">>, <<"p">>}
DayDates == {<<"2", "0">>, <<"2", "1">>, <<"2", "0", " ", "1", "5">>,
             <<"2", "0", " ", "0", "8">>, <<"x">>}
DayTimes == {<<"0", "9">>, <<"1", "0">>, <<>>}
DayCosts == {<<"1", "0">>, <<"a">>}

DayRows == [name : DayNames, date : DayDates, time : DayTimes,
            supported : DayCosts, extra : {<<"5">>}]

\* The visit date cells that parse are written in one format, so that each is
\* parsed as it would be alone.
SameFormat(df) ==
    \A i, j \in 1..Len(df) :
        ParseDateTime(df[i].date) # NaT /\ ParseDateTime(df[j].date) # NaT
            => Len(df[i].date) = Len(df[j].date)

NoDay == [ran |-> FALSE, total |-> 0, extra |-> 0, supported |-> 0, dates |-> {},
          day_df |-> EmptyMap]

InitDay ==
    /\ AuthIdle
    /\ StoreIdle
    /\ GeoIdle
    /\ PassIdle
    /\ FetchIdle
    /\ RenderIdle
    /\ dayIn \in {df \in SeqsUpTo(DayRows, MaxDayRows) : SameFormat(df)}
    /\ dayOut = NoDay

\* tab4 computes the sums and the day groups from df_2024.
RenderDays ==
    /\ ~dayOut.ran
    /\ dayOut' = DayView(dayIn)
    /\ UNCHANGED <<dayIn, storeVars, geoVars, passVars, fetchVars, lastRender, authVars>>

\* The next run of the script starts from the sheet again.
RerunDays ==
    /\ dayOut.ran
    /\ dayOut' = NoDay
    /\ UNCHANGED <<dayIn, storeVars, geoVars, passVars, fetchVars, lastRender, authVars>>

NextDay == RenderDays \/ RerunDays

SpecDay == InitDay /\ [][NextDay]_vars

\* The rows of df_2024 that pass the place-name filter.
KeptRows == {i \in 1..Len(dayIn) : Kept(dayIn[i])}

\* C10: the day groups are exactly the calendar dates of the rows with a visit
\* date that parses; each group is ordered by parsed visit time, rows whose
\* time does not parse after all that do; a row whose date does not parse is in
\* no group and still counts in the overall sums.
C10_DayGroups ==
    dayOut.ran =>
        /\ dayOut.dates =
              {DateOf(ParseDateTime(dayIn[i].date)) :
                 i \in {j \in KeptRows : ParseDateTime(dayIn[j].date) # NaT}}
        /\ \A d \in dayOut.dates :
              LET g == dayOut.day_df[d]
              IN  /\ {g[k].i : k \in 1..Len(g)} =
                        {j \in KeptRows : /\ ParseDateTime(dayIn[j].date) # NaT
                                          /\ DateOf(ParseDateTime(dayIn[j].date)) = d}
                  /\ \A p, q \in 1..Len(g) :
                        p < q => \/ g[q].time = NaT
                                 \/ g[p].time # NaT /\ g[p].time <= g[q].time
        /\ dayOut.total =
              SumOf([k \in 1..Len(dayIn) |->
                       [v |-> IF k \in KeptRows
                              THEN Cost(dayIn[k].supported) + Cost(dayIn[k].extra) ELSE 0]], "v")

(***************************************************************************)
(* The password gate, lines 14-32 and 160-167.  st.session_state is a      *)
(* dictionary: a function whose domain is the keys it holds.               *)
(***************************************************************************)
Del(d, k) == [x \in DOMAIN d \ {k} |-> d[x]]
Set(d, k, v) == [x \in DOMAIN d \cup {k} |-> IF x = k THEN v ELSE d[x]]

\* st.secrets["APP_PASSWORD"]
APP_PASSWORD == "secret"

\* What can be typed into the input.
Passwords == {APP_PASSWORD, "wrong", "other"}

\* The on_change callback of the input, lines 16-22.
password_entered(ss) ==
    IF ss["password"] = APP_PASSWORD
    THEN Del(Set(ss, "password_correct", TRUE), "password")
    ELSE Set(ss, "password_correct", FALSE)

\* st.text_input(..., key="password"): the widget's value is in the session,
\* the empty text until something is typed.
TextInput(ss) == IF "password" \in DOMAIN ss THEN ss ELSE Set(ss, "password", "")

\* A variant of check_password: any answer of the callback opens the gate.
check_passwordAnyAnswer(ss) ==
    IF "password_correct" \notin DOMAIN ss
    THEN [ok |-> FALSE, widget |-> TRUE, error |-> FALSE, ss |-> TextInput(ss)]
    ELSE [ok |-> TRUE, widget |-> FALSE, error |-> FALSE, ss |-> ss]

\* check_password, lines 24-32.
check_password(ss) ==
    IF "password_correct" \notin DOMAIN ss
    THEN [ok |-> FALSE, widget |-> TRUE, error |-> FALSE, ss |-> TextInput(ss)]
    ELSE IF ~ss["password_correct"]
    THEN [ok |-> FALSE, widget |-> TRUE, error |-> TRUE, ss |-> TextInput(ss)]
    ELSE [ok |-> TRUE, widget |-> FALSE, error |-> FALSE, ss |-> ss]

\* What the user does on the page below the gate in this run.
Doings == {"none", "save", "fetch", "tab4"}

\* The operations of the script body, lines 165-472: the spreadsheet is opened,
\* the sheets are ensured and loaded, and then as the page is used.
BodyOps(doing) ==
    {"open", "ensure", "load"} \cup
        (IF doing = "save" THEN {"save"}
         ELSE IF doing = "fetch" THEN {"fetch"}
         ELSE IF doing = "tab4" THEN {"geocode"}
         ELSE {})

\* One run of the script, lines 160-475: st.stop() unless check_password().
Script(ss, doing) ==
    LET c == check_password(ss)
    IN  [ss |-> c.ss, widget |-> c.widget, error |-> c.error,
         ops |-> IF c.ok THEN BodyOps(doing) ELSE {}]

NoScript == <<>>
NoPassword == <<>>

InitAuth ==
    /\ StoreIdle
    /\ GeoIdle
    /\ PassIdle
    /\ FetchIdle
    /\ RenderIdle
    /\ DayIdle
    /\ AuthIdle

\* Has the session the flag, and is it True?  Read off the dictionary itself.
Authenticated(ss) ==
    IF "password_correct" \in DOMAIN ss THEN ss["password_correct"] ELSE FALSE

\* seq with v at place s, which may be one past its end.
PutAt(seq, s, v) == IF s > Len(seq) THEN Append(seq, v) ELSE [seq EXCEPT ![s] = v]

Ran(s, r, typed, before) ==
    /\ session_state' = PutAt(session_state, s, r.ss)
    /\ widget' = PutAt(widget, s, r.widget)
    /\ lastScript' = [session |-> s, ops |-> r.ops, error |-> r.error,
                      gate |-> Authenticated(before)]
    /\ lastEntry' = [session |-> s, just |-> typed # "", typed |-> typed]

\* A browser opens the app: a session of its own, empty, and the script runs.
OpenSession ==
    /\ nSessions < MaxSessions
    /\ nSessions' = nSessions + 1
    /\ \E doing \in Doings : Ran(nSessions + 1, Script(EmptyMap, doing), "", EmptyMap)
    /\ UNCHANGED <<storeVars, geoVars, passVars, fetchVars, lastRender, dayVars>>

\* A password is typed into the input of a session: the widget's value is
\* stored, the callback runs, and the script runs again.
EnterPassword ==
    /\ \E s \in 1..nSessions, p \in Passwords, doing \in Doings :
          /\ widget[s]
          /\ LET after == password_entered(Set(session_state[s], "password", p))
             IN  Ran(s, Script(after, doing), p, after)
    /\ UNCHANGED <<nSessions, storeVars, geoVars, passVars, fetchVars, lastRender, dayVars>>

\* Anything else on the page of a session that makes the script run again.
Rerun ==
    /\ \E s \in 1..nSessions, doing \in Doings :
          Ran(s, Script(session_state[s], doing), "", session_state[s])
    /\ UNCHANGED <<nSessions, storeVars, geoVars, passVars, fetchVars, lastRender, dayVars>>

NextAuth == OpenSession \/ EnterPassword \/ Rerun

SpecAuth == InitAuth /\ [][NextAuth]_vars

\* The flag of a session turns True only as the configured password is entered
\* in that session, and the entered password is then out of the session.
BecomesTrueByThePassword ==
    \A s \in 1..nSessions' :
        (/\ s \in 1..nSessions => ~Authenticated(session_state[s])
         /\ Authenticated(session_state'[s])) =>
            /\ lastEntry'.just
            /\ lastEntry'.session = s
            /\ lastEntry'.typed = APP_PASSWORD
            /\ "password" \notin DOMAIN session_state'[s]

\* A True flag stays True in its session.
StaysTrue ==
    \A s \in 1..nSessions : Authenticated(session_state[s]) => Authenticated(session_state'[s])

\* C12: no run of the script opens, ensures, loads or saves a sheet, geocodes
\* or fetches a page unless password_correct is True in the session; the flag
\* becomes True only in the step where the configured password is entered, and
\* then the entered password is no longer in the session; once True the flag
\* stays True as long as the session lasts.
C12_AuthGate ==
    /\ [](nSessions > 0 => (lastScript.ops # {} => lastScript.gate))
    /\ [][BecomesTrueByThePassword /\ StaysTrue]_vars

\* A session opened by the configured password has saved a sheet, beside a
\* session that was refused a wrong password.
C12_Witness ==
    /\ nSessions > 1
    /\ \E s, t \in 1..nSessions :
          /\ Authenticated(session_state[s])
          /\ lastScript.session = s
          /\ "save" \in lastScript.ops
          /\ "password_correct" \in DOMAIN session_state[t]
          /\ ~Authenticated(session_state[t])

====
